---- MODULE Spec2Model ----
(***************************************************************************)
(* HealthMate back end: the report upload flow (routes/file.js), the File  *)
(* and AiInsight collections and the insight routes.                        *)
(*                                                                         *)
(* Granularity: one action per resumption of an async handler.  An action  *)
(* is the effect of the awaited call (database write, storage call)        *)
(* together with the synchronous code that follows it up to the next       *)
(* await.  Handlers of different requests interleave at these points.      *)
(*                                                                         *)
(* Spec is the upload flow alone; SpecAll interleaves it with the file     *)
(* deletion and the insight routes.                                        *)
(***************************************************************************)
EXTENDS Integers, Sequences, FiniteSets, TLC

\* ---------------------------------------------------------------- bounds
MaxFiles   == 3      \* files carried by one upload request
RaceFiles  == 1      \* the same, where deletes and insight requests interleave
MaxDeletes == 1      \* DELETE /api/files/:id requests in one behaviour
MaxManual  == 1      \* insights created through POST /api/insights
MaxToks    == 2      \* characters before and after the run of prose in a model text
MaxTicks   == 4      \* advances of the clock seen by the rate limiter
MaxSaves   == 4      \* Vitals documents saved in one behaviour
AccessSaves == 1     \* the same, where requests by id interleave
MaxRecs    == 11     \* records of the caller that match a list request

\* ------------------------------------------------------ program constants
FileSizeLimit == 10  \* MB, multer limits.fileSize
MaxCount      == 5   \* upload.array('files', 5)
SummaryChars  == 500 \* text.substring(0, 500)
FallbackConfidence == 70
MsPerSecond   == 1000  \* retryAfter: (...) / 1000
TickMs        == 500   \* the clock advances in steps of half a second
HourMs        == 3600000
DayMs         == 86400000  \* 24 * 60 * 60 * 1000
Undefined     == -1        \* a Number field that is not set
DefaultLimit  == 10        \* const { page = 1, limit = 10 } = req.query

Users == {"u1", "u2"}
\* The model follows one upload request from its arrival to the end of its
\* background step; its number is also the _id of the File it creates.
Reqs  == {1}
Dels  == 1..MaxDeletes

NoFile      == 0                \* body.file absent: file || null
None        == "none"

\* ------------------------------------------------------------ input files
FileKinds == {"pdf", "txt", "big"}

MimeOf(k) ==
  CASE k = "pdf" -> "application/pdf"
    [] k = "txt" -> "text/plain"
    [] k = "big" -> "application/pdf"

SizeOf(k) == IF k = "big" THEN 11 ELSE 1     \* MB

IsImage(m) == m \in {"image/png", "image/jpeg"}   \* mimetype.startsWith('image/')

\* multer fileFilter: cb(null, true) for images and PDFs, cb(new Error) otherwise
FileFilter(k) == IsImage(MimeOf(k)) \/ MimeOf(k) = "application/pdf"

WithinLimit(k) == SizeOf(k) <= FileSizeLimit

\* a file of the request passes the type/size policy
PassesPolicy(k) == FileFilter(k) /\ WithinLimit(k)

AcceptsEverything(fs) == TRUE

\* upload.array('files', 5) with this fileFilter and limits: an Error from the
\* filter, a file over the size limit or a sixth file aborts the whole
\* request (next(err)); the route handler runs only if none occurs.
MulterAccepts(fs) ==
  /\ Len(fs) <= MaxCount
  /\ \A i \in 1..Len(fs) : FileFilter(fs[i]) /\ WithinLimit(fs[i])

FileSeqs == UNION { [1..n -> FileKinds] : n \in 0..MaxFiles }
RaceFileSeqs == UNION { [1..n -> FileKinds] : n \in 0..RaceFiles }

\* ------------------------------------------------------- request metadata
ReportTypeEnum == {"Blood Test", "X-Ray", "MRI Scan", "CT Scan", "Ultrasound",
                   "ECG", "Prescription", "Doctor Consultation", "Other"}

\* values a client sends: absent, a member of the enum, a value outside it
ReportTypes == {"", "Blood Test", "blood_test"}
ReportDates == {"", "2024-01-15"}

\* the keys of the table of getReportTypeSpecificInstructions
InstructionKeys ==
  {"blood_test", "urine_test", "x_ray", "ct_scan", "mri", "ultrasound", "ecg",
   "prescription", "discharge_summary", "consultation"}

\* instructions[reportType] || (general instructions): the table's entry is
\* written as its key
getReportTypeSpecificInstructions(rt) ==
  IF rt \in InstructionKeys THEN rt ELSE "generic"

\* fileSchema validation of the fields the handler sets
FileValidates(rt, rd) == rt \in ReportTypeEnum /\ rd # ""

\* ------------------------------------------------------- analysis results
\* What analyzeMedicalReportFromUrl resolves to is JSON.parse of the model's
\* text (or the fallback): any object.  A result is abstracted to the fields
\* the upload flow and the two schemas look at.
FindingStatusEnum == {"normal", "abnormal", "critical", "borderline"}

\* A queued promise.  of: the request's file it analyses; state: pending,
\* resolved to null by its .catch, or resolved to a result.
Pending(i) == [of |-> i, state |-> "pending", summary |-> "", finding |-> "",
               disclaimers |-> ""]

\* the ways a promise settles
\* disclaimers: the result's disclaimers field is absent, holds both blocks,
\* or holds the aiDisclaimer block only
Outcomes ==
  { \* rejected
    [state |-> "null",  summary |-> "",        finding |-> "",       disclaimers |-> ""],
    \* conforming
    [state |-> "value", summary |-> "both",    finding |-> "normal", disclaimers |-> "both"],
    [state |-> "value", summary |-> "both",    finding |-> "normal", disclaimers |-> "absent"],
    [state |-> "value", summary |-> "both",    finding |-> "normal", disclaimers |-> "aiOnly"],
    \* no summary
    [state |-> "value", summary |-> "absent",  finding |-> "normal", disclaimers |-> "both"],
    \* urdu missing
    [state |-> "value", summary |-> "english", finding |-> "normal", disclaimers |-> "both"],
    \* bad enum
    [state |-> "value", summary |-> "both",    finding |-> "high",   disclaimers |-> "both"] }

\* the outcomes followed where deletes and insight requests interleave: a
\* rejection, a conforming result, one without summary, one without urdu
RaceOutcomes ==
  { o \in Outcomes : o.disclaimers \in {"", "both"} /\ o.finding # "high" }

SettledAs(p, res) ==
  [of |-> p.of, state |-> res.state, summary |-> res.summary, finding |-> res.finding,
   disclaimers |-> res.disclaimers]

\* analysis && analysis.summary
HasSummary(a) == a.state = "value" /\ a.summary # "absent"

\* fileSchema.aiAnalysis[]: enum on keyFindings.status, nothing required
FileSchemaOK(a) == a.finding \in FindingStatusEnum

\* aiInsightSchema: summary.english and summary.urdu required, enum on status
InsightSchemaOK(a) == a.summary = "both" /\ a.finding \in FindingStatusEnum

\* ---------------------------------------------------- insight disclaimers
\* A disclaimer block of an Insight document: unset, the text a result
\* supplied, or the fixed default text.
DefaultDisclaimers == [ai |-> "default", med |-> "default"]
NoDisclaimers      == [ai |-> "unset", med |-> "unset"]

\* disclaimers: analysis.disclaimers || { ...the two default blocks... }
DisclaimersFrom(a) ==
  CASE a.disclaimers = "both"   -> [ai |-> "supplied", med |-> "supplied"]
    [] a.disclaimers = "aiOnly" -> [ai |-> "supplied", med |-> "unset"]
    [] OTHER                    -> DefaultDisclaimers

\* this.disclaimers.aiDisclaimer as the hook reads it.  disclaimers and its
\* two blocks are nested paths of the schema (plain nested objects, not
\* subdocuments): the getter of a nested path hands back an object whether or
\* not any of its fields is set.
NestedGet(block) == IF block = "unset" THEN "emptyObject" ELSE block

\* JavaScript truthiness of what the getter returns: any object is truthy
Falsy(v) == v \in {"undefined", "null"}

\* aiInsightSchema.pre('save'): if (!this.disclaimers.X) this.disclaimers.X = default
PreSaveDisclaimers(d) ==
  [ai  |-> IF Falsy(NestedGet(d.ai)) THEN "default" ELSE d.ai,
   med |-> IF Falsy(NestedGet(d.med)) THEN "default" ELSE d.med]

\* ------------------------------------------------------ geminiService
\* The text of a model response.  Its characters: the two braces, "s" for a
\* well-formed member list that holds a summary only, "a" for a well-formed
\* member list that holds every field the prompt asks for, "x" for anything
\* else (prose).  A text is head, then pad characters of prose, then tail, so
\* that texts longer than SummaryChars are within reach.
Chars == {"{", "}", "s", "a", "x"}
Toks  == UNION { [1..n -> Chars] : n \in 0..MaxToks }
Pads  == {0, SummaryChars}
Texts == [head : Toks, pad : Pads, tail : Toks]

NoText == [head |-> <<>>, pad |-> 0, tail |-> <<>>]

Min(a, b) == IF a <= b THEN a ELSE b
Max(a, b) == IF a >= b THEN a ELSE b

TextLen(t) == Len(t.head) + t.pad + Len(t.tail)

CharAt(t, i) ==
  IF i <= Len(t.head) THEN t.head[i]
  ELSE IF i <= Len(t.head) + t.pad THEN "x"
  ELSE t.tail[i - Len(t.head) - t.pad]

\* text.substring(0, n)
substring(t, n) ==
  LET h  == Min(n, Len(t.head))
      pd == Min(t.pad, Max(0, n - Len(t.head)))
      tl == Min(Len(t.tail), Max(0, n - Len(t.head) - t.pad))
  IN [head |-> SubSeq(t.head, 1, h), pad |-> pd, tail |-> SubSeq(t.tail, 1, tl)]

\* positions of the character c (a brace) in t
Positions(t, c) ==
  { i \in 1..Len(t.head) : t.head[i] = c } \cup
  { Len(t.head) + t.pad + i : i \in { k \in 1..Len(t.tail) : t.tail[k] = c } }

SetMin(S) == CHOOSE m \in S : \A k \in S : m <= k
SetMax(S) == CHOOSE m \in S : \A k \in S : m >= k

\* text.match(/\{[\s\S]*\}/): greedy, from the first "{" to the last "}"
HasMatch(t) ==
  /\ Positions(t, "{") # {}
  /\ Positions(t, "}") # {}
  /\ SetMin(Positions(t, "{")) < SetMax(Positions(t, "}"))

MatchFrom(t) == SetMin(Positions(t, "{"))
MatchTo(t)   == SetMax(Positions(t, "}"))

\* JSON.parse of the characters from..to accepts an object: braces around
\* member lists and nothing else
ParsesAsJson(t, from, to) ==
  \A i \in (from + 1)..(to - 1) : CharAt(t, i) \in {"s", "a"}

\* the fields the prompt asks for
AnalysisFields == {"summary", "keyFindings", "abnormalValues", "doctorQuestions",
                   "recommendations", "riskFactors", "followUpSuggestions",
                   "confidence", "disclaimers"}

MemberFields(c) == IF c = "a" THEN AnalysisFields ELSE {"summary"}

\* A result object: the fields present and, where the service writes them
\* itself, their values (list fields by their length).  english is the
\* prefix of the english summary; ellipsis tells that "..." follows it.
NoObject ==
  [fields |-> {}, english |-> NoText, ellipsis |-> FALSE, urdu |-> "",
   keyFindings |-> 0, abnormalValues |-> 0, doctorQuestions |-> 0,
   lifestyle |-> 0, medical |-> 0, riskFactors |-> 0, followUpSuggestions |-> 0,
   confidence |-> 0, disclaimers |-> ""]

\* JSON.parse(jsonStr): whatever members the text holds, values as written
\* by the model
JsonObject(t, from, to) ==
  [NoObject EXCEPT
     !.fields = UNION { MemberFields(CharAt(t, i)) : i \in (from + 1)..(to - 1) },
     !.urdu = IF from + 1 <= to - 1 THEN "model" ELSE "",
     !.disclaimers = IF \E i \in (from + 1)..(to - 1) : CharAt(t, i) = "a"
                       THEN "model" ELSE ""]

FallbackKeepsWholeText(t) ==
  [NoObject EXCEPT
     !.fields = AnalysisFields, !.english = t, !.ellipsis = TRUE,
     !.urdu = "placeholder", !.doctorQuestions = 1,
     !.confidence = FallbackConfidence, !.disclaimers = "default"]

createFallbackResponse(t) ==
  [fields |-> AnalysisFields,
   english |-> substring(t, SummaryChars), ellipsis |-> TRUE,
   urdu |-> "placeholder",
   keyFindings |-> 0, abnormalValues |-> 0, doctorQuestions |-> 1,
   lifestyle |-> 0, medical |-> 0, riskFactors |-> 0, followUpSuggestions |-> 0,
   confidence |-> FallbackConfidence, disclaimers |-> "default"]

parseGeminiResponse(t) ==
  IF HasMatch(t)
    THEN IF ParsesAsJson(t, MatchFrom(t), MatchTo(t))
           THEN JsonObject(t, MatchFrom(t), MatchTo(t))
           ELSE createFallbackResponse(t)      \* catch (error)
    ELSE createFallbackResponse(t)

\* { ...analysis, processingTime, fileUrl, reportType }
WithCallData(o) ==
  [o EXCEPT !.fields = @ \cup {"processingTime", "fileUrl", "reportType"}]

\* pc: the call is running, has returned result, or has thrown
IdleGemini == [pc |-> "idle", text |-> NoText, result |-> NoObject]

\* ----------------------------------------------------- authenticateToken
\* userId of a token: the id of a user, or one that names no document
GhostUser == "u0"
TokenUsers == Users \cup {GhostUser}

\* A token as jwt.verify sees it: signed with JWT_SECRET or not (a malformed
\* token counts as not signed), past its exp or not, its userId claim, and
\* whether generateToken or generateRefreshToken made it.
Tokens ==
  [signed : BOOLEAN, expired : BOOLEAN, userId : TokenUsers,
   type : {"access", "refresh"}]

NoToken == [signed |-> FALSE, expired |-> FALSE, userId |-> GhostUser,
            type |-> "access"]

\* The Authorization header: absent, a single word ("Bearer"), or two words
\* of which the second is the token.
Headers ==
  { [form |-> f, token |-> NoToken] : f \in {"absent", "oneWord"} } \cup
  { [form |-> "twoWords", token |-> t] : t \in Tokens }

\* authHeader && authHeader.split(' ')[1] is truthy
HasToken(h) == h.form = "twoWords"

verifyIgnoresExpiry(t) ==
  IF ~t.signed THEN "JsonWebTokenError" ELSE "decoded"

\* jwt.verify(token, process.env.JWT_SECRET): the signature is checked
\* first, then the expiry; the name of the error thrown, or "decoded"
verify(t) ==
  IF ~t.signed THEN "JsonWebTokenError"
  ELSE IF t.expired THEN "TokenExpiredError"
  ELSE "decoded"

\* verifyRefreshToken(token): jwt.verify with the same secret, then the type
\* claim is compared with 'refresh'; the error thrown, or "decoded"
verifyRefreshToken(t) ==
  IF verify(t) # "decoded" THEN verify(t)
  ELSE IF t.type # "refresh" THEN "Invalid token type"
  ELSE "decoded"

\* status: the response sent (0: none); nextCalled: next() was called;
\* user: req.user; dbError: User.findById rejected
IdleAuth ==
  [pc |-> "idle", header |-> [form |-> "absent", token |-> NoToken],
   status |-> 0, nextCalled |-> FALSE, user |-> None, dbError |-> FALSE]

\* ------------------------------------------------ sensitiveOperationLimit
\* the key of a request: req.user ? req.user._id.toString() : req.ip
ClientIp == "10.0.0.1"
Callers  == {"u1", None}                 \* req.user of the request
KeyOf(u) == IF u # None THEN u ELSE ClientIp
Keys     == { KeyOf(u) : u \in Callers }

\* the arguments the middleware is made with
AttemptLimits == {1, 2}
Windows       == {2 * TickMs, 3 * TickMs}

\* Math.ceil(ms / 1000) for a whole number of milliseconds
CeilSeconds(ms) ==
  IF ms % MsPerSecond = 0 THEN ms \div MsPerSecond ELSE (ms \div MsPerSecond) + 1

FreshNothing(ts, windowStart) == <<>>

\* attempts.get(key).filter(time => time > windowStart)
Fresh(ts, windowStart) == SelectSeq(ts, LAMBDA time : time > windowStart)

\* attempts: the Map, a key that is absent maps to no entry; passed: every
\* time at which a request of the key was handed to next(); resp: what the
\* last request got (status 0: handed to next())
NoLimitResponse == [key |-> None, at |-> 0, status |-> 0, retryAfter |-> 0]

NoLimiter ==
  [maxAttempts |-> 0, windowMs |-> 0, now |-> 0, ticks |-> 0,
   attempts |-> [k \in {} |-> <<>>], passed |-> [k \in Keys |-> <<>>],
   refused |-> [k \in Keys |-> Undefined], resp |-> NoLimitResponse]

\* ---------------------------------------------------------- Vitals model
TypeEnum ==
  {"blood_pressure", "heart_rate", "temperature", "weight", "height",
   "blood_sugar", "oxygen_saturation", "respiratory_rate", "bmi",
   "waist_circumference", "body_fat_percentage", "sleep_hours", "steps",
   "calories_burned", "water_intake", "mood", "energy_level", "pain_level",
   "stress_level", "other"}

UnitEnum ==
  {"mmHg", "bpm", "C", "F", "kg", "lbs", "cm", "ft", "in", "mg/dL", "mmol/L",
   "%", "hours", "steps", "calories", "liters", "ml", "cups", "scale_1_10",
   "scale_1_5", "text"}

\* the types whose value is a text
TextTypes == {"mood", "energy_level", "pain_level", "stress_level"}

\* A Vitals document.  Number fields hold tenths (700: 70.0) or Undefined;
\* text is "" when not set; isActive is "true", "false" or "unset".  The
\* units are written in ASCII (kg/m2 for the unit of the bmi reading).
\* hook is not a field of the document: it records that the pre-save hook
\* issued the bmi upsert when the document was saved.
BlankVital ==
  [id |-> <<>>, user |-> None, type |-> "", numeric |-> Undefined, text |-> "",
   systolic |-> Undefined, diastolic |-> Undefined, unit |-> "",
   recordedAt |-> 0, isActive |-> "true", source |-> "manual", hook |-> FALSE]

\* schema validation at save(): required paths and enums
Validates(d) ==
  /\ d.user # None
  /\ d.type \in TypeEnum
  /\ d.unit \in UnitEnum
  /\ d.type \notin TextTypes => d.numeric # Undefined
  /\ d.type \in TextTypes => d.text # ""
  /\ d.type = "blood_pressure" => (d.systolic # Undefined /\ d.diastolic # Undefined)

\* virtual formattedValue, as the pieces of the string it builds
formattedValue(d) ==
  IF d.type = "blood_pressure" THEN <<d.systolic, "/", d.diastolic, " ", d.unit>>
  ELSE IF d.numeric # Undefined THEN <<d.numeric, " ", d.unit>>
  ELSE IF d.text # "" THEN <<d.text>>
  ELSE <<"N/A">>

\* Math.round(bmi * 10) / 10 in tenths, for weight w and height h in tenths
\* of kg and cm: bmi = (w/10) / ((h/10/100)^2)
BmiOf(w, h) == (2 * w * 1000000 + h * h) \div (2 * h * h)

\* the documents saved in the model: readings of u1 at several times, active
\* or not, a document the schema rejects, and a reading of u2
Reading(u, ty, n, un, t, act) ==
  [BlankVital EXCEPT !.user = u, !.type = ty, !.numeric = n, !.unit = un,
                     !.recordedAt = t, !.isActive = act]

SavedDocs ==
  { Reading("u1", "weight", 700, "kg", t, "true") :
      t \in {0, 24 * HourMs, 48 * HourMs} } \cup
  { Reading("u1", "weight", 720, "kg", 48 * HourMs, "false"),
    Reading("u1", "height", 1750, "cm", 0, "true"),
    Reading("u1", "weight", 700, "stone", 0, "true"),
    [Reading("u1", "blood_pressure", 1200, "mmHg", 0, "true")
       EXCEPT !.systolic = 1200, !.diastolic = 800],
    [Reading("u1", "mood", Undefined, "text", 0, "true") EXCEPT !.text = "good"],
    Reading("u2", "weight", 900, "kg", 24 * HourMs, "true") }

\* pc: idle, height (findOne of the height reading under way), bmi
\* (findOneAndUpdate under way), insert (the document is being written).
\* A document that has an id is one that PUT /api/vitals/:id loaded, asker
\* being the caller; modified: the request changed one of its paths.
IdleSave == [pc |-> "idle", doc |-> BlankVital, height |-> Undefined,
             modified |-> FALSE]

NoAnswer == [op |-> "", user |-> None, status |-> 0, data |-> {}, asked |-> BlankVital]

\* The answer to a request for a list or for a record by id.  data holds the
\* records of the body, the populated ones included, each as its collection,
\* _id and user; id is req.params.id, for a File as a tuple of one number.
NoAccess == [op |-> "", user |-> None, id |-> <<>>, status |-> 0, data |-> {}]

\* A list request: total is the number of the caller's records that match
\* the query, page and limit are req.query's values after the defaults of
\* the destructuring.  data holds the positions, in sorted order, of the
\* records answered; pages is Undefined where JSON has null.
NoPage == [pc |-> "idle", route |-> "", total |-> 0, page |-> 0, limit |-> 0,
           status |-> 0, data |-> <<>>, pages |-> 0]

\* A request in the profile handler.  responses: the statuses of the
\* responses written on res, in order; data: a response carried the profile;
\* updated: User.findByIdAndUpdate was issued; rejected: the handler's
\* promise rejected (an error was thrown outside its try, or in its catch)
IdleProfile ==
  [pc |-> "idle", method |-> "", valid |-> FALSE, responses |-> <<>>,
   data |-> FALSE, updated |-> FALSE, rejected |-> FALSE]

\* ------------------------------------------------------------------ state
VARIABLES
  upl,        \* upl[r]: the upload request r and its background step
  del,        \* del[d]: a DELETE /api/files/:id request
  files,      \* the File collection
  insights,   \* the AiInsight collection
  store,      \* objects held by the storage service (Cloudinary public ids)
  temp,       \* files in backend/temp
  manual,     \* number of insights created through POST /api/insights
  gem,        \* a call of geminiService.analyzeMedicalReportFromUrl
  accounts,   \* ids of the documents of the User collection
  auth,       \* a request passing through authenticateToken
  lim,        \* one middleware made by sensitiveOperationLimit, and the clock
  vitals,     \* the Vitals collection
  vsave,      \* the save() of a Vitals document that is under way
  vcount,     \* number of save() calls so far
  vout,       \* the answer to the last request on vitals
  acc,        \* the answer to the last request for a list or for a record by id
  pg,         \* a list request with its page and limit, and its answer
  prof        \* a request in the serverless profile handler

routeVars  == <<upl, del, files, insights, store, temp, manual>>
geminiVars == <<gem>>
authVars   == <<accounts, auth>>
limitVars  == <<lim>>
vitalVars  == <<vitals, vsave, vcount, vout>>
accessVars == <<acc>>
pageVars   == <<pg>>
profileVars == <<prof>>

vars == <<routeVars, geminiVars, authVars, limitVars, vitalVars, accessVars, pageVars, profileVars>>

\* the state a component leaves alone
outsideRoutes == <<geminiVars, authVars, limitVars, vitalVars, accessVars, pageVars, profileVars>>
outsideGemini == <<routeVars, authVars, limitVars, vitalVars, accessVars, pageVars, profileVars>>
outsideAuth   == <<routeVars, geminiVars, limitVars, vitalVars, accessVars, pageVars, profileVars>>
outsideLimit  == <<routeVars, geminiVars, authVars, vitalVars, accessVars, pageVars, profileVars>>
outsideVitals == <<routeVars, geminiVars, authVars, limitVars, accessVars, pageVars, profileVars>>

\* what the client is answered: HTTP status and, for a success, data.file.status
\* and data.uploadedFiles
NoResponse == [status |-> 0, fileStatus |-> "", uploadedFiles |-> 0]
Answer(st) == [status |-> st, fileStatus |-> "", uploadedFiles |-> 0]

IdleUpload ==
  [pc |-> "idle", user |-> None, files |-> <<>>, reportType |-> "",
   reportDate |-> "", idx |-> 0, uploadedFiles |-> <<>>, skipped |-> {},
   promises |-> <<>>, resp |-> NoResponse, bg |-> "none", bgIdx |-> 0, made |-> {},
   malformed |-> FALSE, guidance |-> ""]

\* removed: deletedCount of the deleteMany; requested: the public ids passed
\* to deleteFromCloudinary so far; failed: those whose call rejected
IdleDelete == [pc |-> "idle", user |-> None, id |-> NoFile, cloud |-> <<>>,
               idx |-> 0, removed |-> 0, resp |-> 0,
               requested |-> <<>>, failed |-> {}]

\* no request has arrived, the collections are empty
RoutesInit ==
  /\ upl = [r \in Reqs |-> IdleUpload]
  /\ del = [d \in Dels |-> IdleDelete]
  /\ files = {}
  /\ insights = {}
  /\ store = {}
  /\ temp = {}
  /\ manual = 0

\* the Vitals collection is empty, nothing is being saved
VitalsIdle ==
  /\ vitals = {}
  /\ vsave = IdleSave
  /\ vcount = 0
  /\ vout = NoAnswer

\* no request is in authenticateToken; no account is registered
AuthIdle ==
  /\ accounts = {}
  /\ auth = IdleAuth

Init ==
  /\ RoutesInit
  /\ acc = NoAccess
  /\ pg = NoPage
  /\ prof = IdleProfile
  /\ gem = IdleGemini
  /\ AuthIdle
  /\ lim = NoLimiter
  /\ VitalsIdle

\* ids of the File records created so far, deleted ones included: the ids a
\* client can put in a request
KnownIds == { r \in Reqs : upl[r].pc = "responded" }

FileOf(id) == CHOOSE f \in files : f.id = id
Exists(id) == \E f \in files : f.id = id

\* --------------------------------------------------- POST /api/files/upload
\* the promises queued by the request, in queue order
Settled(r) ==
  \A j \in 1..Len(upl[r].promises) : upl[r].promises[j].state # "pending"

\* analyses.filter(analysis => analysis !== null)
ValidAnalyses(ps) == SelectSeq(ps, LAMBDA a : a.state # "null")

MissingInputNoDate(fs, rt, rd) == Len(fs) = 0 \/ rt = ""

\* !req.files || req.files.length === 0, then !reportType || !reportDate
MissingInput(fs, rt, rd) == Len(fs) = 0 \/ rt = "" \/ rd = ""

\* the request arrives: multer, then the handler up to its first await
UploadReceive(r, u, fs, rt, rd) ==
  /\ upl[r].pc = "idle"
  /\ LET base == [upl[r] EXCEPT !.user = u, !.files = fs,
                                !.reportType = rt, !.reportDate = rd]
     IN
     IF ~MulterAccepts(fs)
       THEN \* next(err): the app's error middleware answers 500
            /\ upl' = [upl EXCEPT ![r] = [base EXCEPT !.pc = "done",
                                    !.resp = Answer(500)]]
            /\ UNCHANGED temp
     ELSE IF MissingInput(fs, rt, rd)
       THEN /\ upl' = [upl EXCEPT ![r] = [base EXCEPT !.pc = "done",
                                    !.resp = Answer(400)]]
            /\ UNCHANGED temp
       ELSE \* first iteration of the loop: temp file written, storage call made
            /\ upl' = [upl EXCEPT ![r] = [base EXCEPT !.pc = "storing", !.idx = 1]]
            /\ temp' = temp \cup {<<r, 1>>}
  /\ UNCHANGED <<del, files, insights, store, manual, outsideRoutes>>

\* The request arrives with a multipart body the parser cannot read (the
\* form ends before its closing boundary, a part has no header, ...): the
\* parser's error reaches multer, which calls next(err); no error-handling
\* middleware stands between the route and the app's, which answers 500.
\* The route handler does not run.
UploadMalformed(r, u) ==
  /\ upl[r].pc = "idle"
  /\ upl' = [upl EXCEPT ![r] = [@ EXCEPT !.user = u, !.malformed = TRUE,
                                          !.pc = "done", !.resp = Answer(500)]]
  /\ UNCHANGED <<del, files, insights, store, temp, manual, outsideRoutes>>

\* the record pushed to uploadedFiles for input file i of request r
StoredFile(r, i, k) == [cloudinaryId |-> <<r, i>>, mimeType |-> MimeOf(k)]

\* images and PDFs are queued for analysis
Analyzable(m) == IsImage(m) \/ m = "application/pdf"

UploadStoredFailureEndsRequest(r, ok) ==
  /\ upl[r].pc = "storing"
  /\ LET q == upl[r]
         i == q.idx
         k == q.files[i]
         last == i = Len(q.files)
     IN
     IF ok
       THEN /\ store' = store \cup {<<r, i>>}
            /\ temp' = (temp \ {<<r, i>>}) \cup (IF last THEN {} ELSE {<<r, i + 1>>})
            /\ upl' = [upl EXCEPT ![r] =
                 [q EXCEPT !.uploadedFiles = Append(@, StoredFile(r, i, k)),
                           !.promises = Append(@, Pending(i)),
                           !.guidance = getReportTypeSpecificInstructions(q.reportType),
                           !.pc = IF last THEN "saving" ELSE "storing",
                           !.idx = IF last THEN i ELSE i + 1]]
       ELSE /\ upl' = [upl EXCEPT ![r] =
                 [q EXCEPT !.skipped = @ \cup {i}, !.pc = "done",
                           !.resp = Answer(500)]]
            /\ UNCHANGED <<store, temp>>
  /\ UNCHANGED <<del, files, insights, manual, outsideRoutes>>

\* uploadToCloudinary settles for file idx; the loop goes on to the next file
\* or, after the last one, to fileRecord.save()
UploadStored(r, ok) ==
  /\ upl[r].pc = "storing"
  /\ LET q == upl[r]
         i == q.idx
         k == q.files[i]
         after ==
           IF ok
             THEN [q EXCEPT !.uploadedFiles = Append(@, StoredFile(r, i, k)),
                            !.promises = IF Analyzable(MimeOf(k))
                                           THEN Append(@, Pending(i)) ELSE @,
                            !.guidance =
                               IF Analyzable(MimeOf(k))
                                 THEN getReportTypeSpecificInstructions(q.reportType)
                                 ELSE @]
             ELSE [q EXCEPT !.skipped = @ \cup {i}]
         last == i = Len(q.files)
     IN
     /\ store' = IF ok THEN store \cup {<<r, i>>} ELSE store
     /\ temp' = (IF ok THEN temp \ {<<r, i>>} ELSE temp)
                  \cup (IF last THEN {} ELSE {<<r, i + 1>>})
     /\ upl' = [upl EXCEPT ![r] =
                  IF last THEN [after EXCEPT !.pc = "saving"]
                          ELSE [after EXCEPT !.idx = i + 1]]
  /\ UNCHANGED <<del, files, insights, manual, outsideRoutes>>

\* a queued analysis settles: a result, or null through its .catch
AnalysisSettle(r, j, res) ==
  /\ j \in 1..Len(upl[r].promises)
  /\ upl[r].promises[j].state = "pending"
  /\ upl' = [upl EXCEPT ![r].promises[j] = SettledAs(@, res)]
  /\ UNCHANGED <<del, files, insights, store, temp, manual, outsideRoutes>>

\* a record created while its analyses run, with status 'analyzing'
NewFileRecordAnalyzing(r) ==
  [id |-> r, user |-> upl[r].user, files |-> upl[r].uploadedFiles,
   status |-> "analyzing", aiAnalysis |-> <<>>]

NewFileRecord(r) ==
  [id |-> r, user |-> upl[r].user, files |-> upl[r].uploadedFiles,
   status |-> "uploaded", aiAnalysis |-> <<>>]

SaveWithoutResponding(r) ==
  /\ upl[r].pc = "saving"
  /\ FileValidates(upl[r].reportType, upl[r].reportDate)
  /\ files' = files \cup {NewFileRecord(r)}
  /\ upl' = [upl EXCEPT ![r].pc = "joining", ![r].bg = "waiting"]
  /\ UNCHANGED <<del, insights, store, temp, manual, outsideRoutes>>

\* fileRecord.save() settles; Promise.all(...).then(...) is registered and the
\* response is sent
UploadSaveRecord(r) ==
  /\ upl[r].pc = "saving"
  /\ IF FileValidates(upl[r].reportType, upl[r].reportDate)
       THEN /\ files' = files \cup {NewFileRecord(r)}
            /\ upl' = [upl EXCEPT
                 ![r].pc = "responded",
                 ![r].bg = IF Len(upl[r].promises) > 0 THEN "waiting" ELSE "none",
                 ![r].resp = [status |-> 200,
                              fileStatus |-> NewFileRecord(r).status,
                              uploadedFiles |-> Len(upl[r].uploadedFiles)]]
       ELSE \* ValidationError, the handler's catch answers 500
            /\ files' = files
            /\ upl' = [upl EXCEPT ![r].pc = "done", ![r].resp = Answer(500)]
  /\ UNCHANGED <<del, insights, store, temp, manual, outsideRoutes>>

\* ------------------------- Promise.all(fileAnalysisPromises).then(callback)
\* index of the first analysis at or after position from that has a summary
\* (0 if none): the loop skips results without a summary
NextWithSummary(valid, from) ==
  LET js == { j \in from..Len(valid) : HasSummary(valid[j]) }
  IN IF js = {} THEN 0 ELSE CHOOSE j \in js : \A k \in js : j <= k

\* where the callback stands after the work on position j-1 of validAnalyses
BgAt(q, valid, from) ==
  LET j == NextWithSummary(valid, from)
  IN IF j = 0 THEN [q EXCEPT !.bg = "done", !.bgIdx = 0]
              ELSE [q EXCEPT !.bg = "insights", !.bgIdx = j]

AnalyzedWithoutSnapshot(f, valid) == [f EXCEPT !.status = "analyzed"]

\* fileRecord.aiAnalysis = validAnalyses; fileRecord.status = 'analyzed'
Analyzed(f, valid) == [f EXCEPT !.status = "analyzed", !.aiAnalysis = valid]

BgMarksAnalyzedAlways(r) ==
  /\ upl[r].bg = "waiting"
  /\ Settled(r)
  /\ Exists(r)
  /\ files' = (files \ {FileOf(r)}) \cup {[FileOf(r) EXCEPT !.status = "analyzed"]}
  /\ upl' = [upl EXCEPT ![r].bg = "done"]
  /\ UNCHANGED <<del, insights, store, temp, manual, outsideRoutes>>

\* every queued promise has settled: the callback runs up to the first
\* insight.save().  fileRecord.save() updates the stored document; it throws
\* if the document is gone or an analysis violates the schema, and the
\* callback's catch ends the step.
BgFileSave(r) ==
  /\ upl[r].bg = "waiting"
  /\ Settled(r)
  /\ LET valid == ValidAnalyses(upl[r].promises)
     IN
     IF Len(valid) = 0
       THEN /\ upl' = [upl EXCEPT ![r].bg = "done"]
            /\ UNCHANGED files
     ELSE IF ~Exists(r) \/ \E j \in 1..Len(valid) : ~FileSchemaOK(valid[j])
       THEN /\ upl' = [upl EXCEPT ![r].bg = "done"]
            /\ UNCHANGED files
       ELSE /\ files' = (files \ {FileOf(r)}) \cup {Analyzed(FileOf(r), valid)}
            /\ upl' = [upl EXCEPT ![r] = BgAt(upl[r], valid, 1)]
  /\ UNCHANGED <<del, insights, store, temp, manual, outsideRoutes>>

\* the Insight built from position j of validAnalyses
NewInsight(r, j) ==
  [id |-> <<"analysis", r, j>>, user |-> upl[r].user, file |-> r,
   model |-> "gemini-2.5-flash",
   disclaimers |-> DisclaimersFrom(ValidAnalyses(upl[r].promises)[j])]

\* insight.save() settles for position bgIdx; a ValidationError leaves the
\* loop through the callback's catch
BgInsightSave(r) ==
  /\ upl[r].bg = "insights"
  /\ LET valid == ValidAnalyses(upl[r].promises)
         j == upl[r].bgIdx
     IN
     IF InsightSchemaOK(valid[j])
       THEN /\ insights' = insights \cup
                 {[NewInsight(r, j) EXCEPT !.disclaimers = PreSaveDisclaimers(@)]}
            /\ upl' = [upl EXCEPT ![r] =
                         BgAt([upl[r] EXCEPT !.made = @ \cup {j}], valid, j + 1)]
       ELSE /\ upl' = [upl EXCEPT ![r].bg = "done", ![r].bgIdx = 0]
            /\ UNCHANGED insights
  /\ UNCHANGED <<del, files, store, temp, manual, outsideRoutes>>

\* ------------------------------------------------- DELETE /api/files/:id
\* File.findOne({_id, user}) settles
DelStart(d, u, id) ==
  /\ del[d].pc = "idle"
  /\ IF \E f \in files : f.id = id /\ f.user = u
       THEN LET f == FileOf(id)
                ids == [i \in 1..Len(f.files) |-> f.files[i].cloudinaryId]
            IN del' = [del EXCEPT ![d] =
                 [pc |-> IF Len(ids) = 0 THEN "record" ELSE "cloud",
                  user |-> u, id |-> id, cloud |-> ids,
                  idx |-> IF Len(ids) = 0 THEN 0 ELSE 1, removed |-> 0,
                  resp |-> 0, requested |-> <<>>, failed |-> {}]]
       ELSE del' = [del EXCEPT ![d] = [IdleDelete EXCEPT
                 !.pc = "done", !.user = u, !.id = id, !.resp = 404]]
  /\ UNCHANGED <<upl, files, insights, store, temp, manual, outsideRoutes>>

\* a loop in which the first rejected deleteFromCloudinary ends the request
\* with the 500 of the handler's catch
DelCloudFailureEndsRequest(d, ok) ==
  /\ del[d].pc = "cloud"
  /\ LET i == del[d].idx
         q == [del[d] EXCEPT !.requested = Append(@, del[d].cloud[i]),
                             !.failed = IF ok THEN @ ELSE @ \cup {del[d].cloud[i]}]
     IN /\ store' = IF ok THEN store \ {del[d].cloud[i]} ELSE store
        /\ del' = [del EXCEPT ![d] =
                     IF ~ok THEN [q EXCEPT !.pc = "done", !.resp = 500]
                     ELSE IF i = Len(del[d].cloud)
                       THEN [q EXCEPT !.pc = "record", !.idx = 0]
                       ELSE [q EXCEPT !.idx = i + 1]]
  /\ UNCHANGED <<upl, files, insights, temp, manual, outsideRoutes>>

\* deleteFromCloudinary settles for stored file idx; a failure is logged and
\* the loop goes on
DelCloud(d, ok) ==
  /\ del[d].pc = "cloud"
  /\ LET i == del[d].idx
         q == [del[d] EXCEPT !.requested = Append(@, del[d].cloud[i]),
                             !.failed = IF ok THEN @ ELSE @ \cup {del[d].cloud[i]}]
     IN /\ store' = IF ok THEN store \ {del[d].cloud[i]} ELSE store
        /\ del' = [del EXCEPT ![d] =
                     IF i = Len(del[d].cloud)
                       THEN [q EXCEPT !.pc = "record", !.idx = 0]
                       ELSE [q EXCEPT !.idx = i + 1]]
  /\ UNCHANGED <<upl, files, insights, temp, manual, outsideRoutes>>

\* File.findByIdAndDelete settles
DelRecord(d) ==
  /\ del[d].pc = "record"
  /\ files' = { f \in files : f.id # del[d].id }
  /\ del' = [del EXCEPT ![d].pc = "insights"]
  /\ UNCHANGED <<upl, insights, store, temp, manual, outsideRoutes>>

NothingRemoved(d) == insights

\* Insight.deleteMany({ file: req.params.id })
InsightsKept(d) == { i \in insights : i.file # del[d].id }

\* deleteMany settles and the success response is sent
DelInsights(d) ==
  /\ del[d].pc = "insights"
  /\ insights' = InsightsKept(d)
  /\ del' = [del EXCEPT ![d].pc = "done", ![d].resp = 200,
                         ![d].removed = Cardinality(insights \ InsightsKept(d))]
  /\ UNCHANGED <<upl, files, store, temp, manual, outsideRoutes>>

\* ------------------------------------------------------- /api/insights
\* POST /api/insights: complete = type, title and summary are all present;
\* summary and file are the body's fields.  The schema requires file and
\* both summary languages; nothing looks the file up.
InsightPost(u, complete, summary, file) ==
  /\ manual < MaxManual
  /\ IF complete /\ file # NoFile /\ summary = "both"
       THEN /\ insights' = insights \cup
                 {[id |-> <<"manual", 0, manual + 1>>, user |-> u, file |-> file,
                   model |-> "gemini-1.5-pro",
                   disclaimers |-> PreSaveDisclaimers(NoDisclaimers)]}
            /\ manual' = manual + 1
       ELSE UNCHANGED <<insights, manual>>    \* 400, or 500 on ValidationError
  /\ UNCHANGED <<upl, del, files, store, temp, outsideRoutes>>

\* DELETE /api/insights/:id
InsightDelete(u, iid) ==
  /\ insights' = { i \in insights : ~(i.id = iid /\ i.user = u) }
  /\ UNCHANGED <<upl, del, files, store, temp, manual, outsideRoutes>>

\* ------------------------------------------------------------------- spec
\* The upload flow on its own: one request from arrival to the end of its
\* background step.
Next ==
  \/ \E r \in Reqs, u \in Users, fs \in FileSeqs,
        rt \in ReportTypes, rd \in ReportDates : UploadReceive(r, u, fs, rt, rd)
  \/ \E r \in Reqs, ok \in BOOLEAN : UploadStored(r, ok)
  \/ \E r \in Reqs, j \in 1..MaxFiles, res \in Outcomes : AnalysisSettle(r, j, res)
  \/ \E r \in Reqs : UploadSaveRecord(r)
  \/ \E r \in Reqs : BgFileSave(r)
  \/ \E r \in Reqs : BgInsightSave(r)

Spec == Init /\ [][Next]_vars

\* The upload flow interleaved with DELETE /api/files/:id and the insight
\* routes.
NextAll ==
  \/ \E r \in Reqs, u \in Users, fs \in RaceFileSeqs,
        rt \in ReportTypes, rd \in ReportDates : UploadReceive(r, u, fs, rt, rd)
  \/ \E r \in Reqs, ok \in BOOLEAN : UploadStored(r, ok)
  \/ \E r \in Reqs, j \in 1..RaceFiles, res \in RaceOutcomes : AnalysisSettle(r, j, res)
  \/ \E r \in Reqs : UploadSaveRecord(r)
  \/ \E r \in Reqs : BgFileSave(r)
  \/ \E r \in Reqs : BgInsightSave(r)
  \/ \E d \in Dels, u \in Users, id \in KnownIds : DelStart(d, u, id)
  \/ \E d \in Dels, ok \in BOOLEAN : DelCloud(d, ok)
  \/ \E d \in Dels : DelRecord(d)
  \/ \E d \in Dels : DelInsights(d)
  \/ \E u \in Users, complete \in BOOLEAN, summary \in {"both", "english"},
        file \in KnownIds \cup {NoFile} : InsightPost(u, complete, summary, file)
  \/ \E u \in Users, i \in insights : InsightDelete(u, i.id)

SpecAll == Init /\ [][NextAll]_vars

\* The upload of one or two PDFs by u1, followed to the end of its background
\* step, interleaved with DELETE /api/files/:id.
DeletedFileSeqs == { <<"pdf">>, <<"pdf", "pdf">> }

NextDelete ==
  \/ \E r \in Reqs, fs \in DeletedFileSeqs :
        UploadReceive(r, "u1", fs, "Blood Test", "2024-01-15")
  \/ \E r \in Reqs, ok \in BOOLEAN : UploadStored(r, ok)
  \/ \E r \in Reqs, j \in 1..2, res \in RaceOutcomes : AnalysisSettle(r, j, res)
  \/ \E r \in Reqs : UploadSaveRecord(r)
  \/ \E r \in Reqs : BgFileSave(r)
  \/ \E r \in Reqs : BgInsightSave(r)
  \/ \E d \in Dels, u \in Users, id \in KnownIds : DelStart(d, u, id)
  \/ \E d \in Dels, ok \in BOOLEAN : DelCloud(d, ok)
  \/ \E d \in Dels : DelRecord(d)
  \/ \E d \in Dels : DelInsights(d)

SpecDelete == Init /\ [][NextDelete]_vars

\* The upload flow, with requests the multipart parser cannot read.
NextParse ==
  \/ \E r \in Reqs, u \in Users : UploadMalformed(r, u)
  \/ \E r \in Reqs, u \in Users, fs \in FileSeqs,
        rt \in ReportTypes, rd \in ReportDates : UploadReceive(r, u, fs, rt, rd)
  \/ \E r \in Reqs, ok \in BOOLEAN : UploadStored(r, ok)
  \/ \E r \in Reqs, j \in 1..MaxFiles, res \in Outcomes : AnalysisSettle(r, j, res)
  \/ \E r \in Reqs : UploadSaveRecord(r)
  \/ \E r \in Reqs : BgFileSave(r)
  \/ \E r \in Reqs : BgInsightSave(r)

SpecParse == Init /\ [][NextParse]_vars

\* ------------------------------------------ analyzeMedicalReportFromUrl
\* The download of the file or the call of the model rejects: the catch
\* rethrows.
AnalyzeThrows ==
  /\ gem.pc = "running"
  /\ gem' = [gem EXCEPT !.pc = "thrown"]
  /\ UNCHANGED outsideGemini

\* The model answers with gem.text: the text is parsed and the result
\* returned with the call's data added.
AnalyzeReturns ==
  /\ gem.pc = "running"
  /\ gem' = [gem EXCEPT !.pc = "returned",
                         !.result = WithCallData(parseGeminiResponse(gem.text))]
  /\ UNCHANGED outsideGemini

\* a call of analyzeMedicalReportFromUrl for each text the model can answer
InitGemini ==
  /\ RoutesInit
  /\ acc = NoAccess
  /\ pg = NoPage
  /\ prof = IdleProfile
  /\ AuthIdle
  /\ lim = NoLimiter
  /\ VitalsIdle
  /\ \E t \in Texts : gem = [pc |-> "running", text |-> t, result |-> NoObject]

NextGemini == AnalyzeThrows \/ AnalyzeReturns

SpecGemini == InitGemini /\ [][NextGemini]_vars

\* ----------------------------------------------------- authenticateToken
\* an account is registered (routes/auth register)
Register(u) ==
  /\ u \notin accounts
  /\ accounts' = accounts \cup {u}
  /\ UNCHANGED <<auth, outsideAuth>>

\* the middleware runs up to its first await or to a response
authenticateToken(h) ==
  /\ auth.pc = "idle"
  /\ LET a == [auth EXCEPT !.header = h]
     IN
     IF ~HasToken(h)
       THEN auth' = [a EXCEPT !.pc = "done", !.status = 401]
     ELSE IF verify(h.token) \in {"JsonWebTokenError", "TokenExpiredError"}
       THEN auth' = [a EXCEPT !.pc = "done", !.status = 401]   \* catch (error)
       ELSE auth' = [a EXCEPT !.pc = "lookup"]
  /\ UNCHANGED <<accounts, outsideAuth>>

\* User.findById(decoded.userId) settles: a document, null, or a rejection
\* that the catch answers with 500
authenticateTokenLookup(dbOk) ==
  /\ auth.pc = "lookup"
  /\ LET id == auth.header.token.userId
     IN
     IF ~dbOk
       THEN auth' = [auth EXCEPT !.pc = "done", !.status = 500, !.dbError = TRUE]
     ELSE IF id \notin accounts
       THEN auth' = [auth EXCEPT !.pc = "done", !.status = 401]
       ELSE auth' = [auth EXCEPT !.pc = "done", !.user = id, !.nextCalled = TRUE]
  /\ UNCHANGED <<accounts, outsideAuth>>

InitAuth ==
  /\ RoutesInit
  /\ acc = NoAccess
  /\ pg = NoPage
  /\ prof = IdleProfile
  /\ gem = IdleGemini
  /\ AuthIdle
  /\ lim = NoLimiter
  /\ VitalsIdle

NextAuth ==
  \/ \E u \in Users : Register(u)
  \/ \E h \in Headers : authenticateToken(h)
  \/ \E dbOk \in BOOLEAN : authenticateTokenLookup(dbOk)

SpecAuth == InitAuth /\ [][NextAuth]_vars

\* ------------------------------------------------ sensitiveOperationLimit
\* Date.now() moves on
Tick ==
  /\ lim.ticks < MaxTicks
  /\ lim' = [lim EXCEPT !.now = @ + TickMs, !.ticks = @ + 1]
  /\ UNCHANGED outsideLimit

\* a middleware that pushes the time of every request, refused ones included
LimitRequestCountsRefusals(u) ==
  LET key == KeyOf(u)
      now == lim.now
      windowStart == now - lim.windowMs
      cleaned == IF key \in DOMAIN lim.attempts
                   THEN Fresh(lim.attempts[key], windowStart)
                   ELSE <<>>
      others == [k \in DOMAIN lim.attempts \ {key} |-> lim.attempts[k]]
      put(ts) == [k \in DOMAIN lim.attempts \cup {key} |->
                    IF k = key THEN ts ELSE others[k]]
  IN
  /\ IF Len(cleaned) >= lim.maxAttempts
       THEN lim' = [lim EXCEPT
              !.attempts = put(Append(cleaned, now)),
              !.refused[key] = now,
              !.resp = [key |-> key, at |-> now, status |-> 429,
                        retryAfter |-> CeilSeconds(cleaned[1] + lim.windowMs - now)]]
       ELSE lim' = [lim EXCEPT
              !.attempts = put(Append(cleaned, now)),
              !.passed[key] = Append(@, now),
              !.resp = [key |-> key, at |-> now, status |-> 0, retryAfter |-> 0]]
  /\ UNCHANGED outsideLimit

\* the middleware handles a request of caller u (passed keeps the times of
\* the requests handed to next(), refused the time of the last one answered
\* 429)
LimitRequest(u) ==
  LET key == KeyOf(u)
      now == lim.now
      windowStart == now - lim.windowMs
      cleaned == IF key \in DOMAIN lim.attempts
                   THEN Fresh(lim.attempts[key], windowStart)
                   ELSE <<>>
      others == [k \in DOMAIN lim.attempts \ {key} |-> lim.attempts[k]]
      put(ts) == [k \in DOMAIN lim.attempts \cup {key} |->
                    IF k = key THEN ts ELSE others[k]]
  IN
  /\ IF Len(cleaned) >= lim.maxAttempts
       THEN lim' = [lim EXCEPT
              !.attempts = put(cleaned),
              !.refused[key] = now,
              !.resp = [key |-> key, at |-> now, status |-> 429,
                        retryAfter |-> CeilSeconds(cleaned[1] + lim.windowMs - now)]]
       ELSE lim' = [lim EXCEPT
              !.attempts = put(Append(cleaned, now)),
              !.passed[key] = Append(@, now),
              !.resp = [key |-> key, at |-> now, status |-> 0, retryAfter |-> 0]]
  /\ UNCHANGED outsideLimit

\* sensitiveOperationLimit(maxAttempts, windowMs) has been called
InitLimit ==
  /\ RoutesInit
  /\ acc = NoAccess
  /\ pg = NoPage
  /\ prof = IdleProfile
  /\ gem = IdleGemini
  /\ AuthIdle
  /\ \E m \in AttemptLimits, w \in Windows :
        lim = [NoLimiter EXCEPT !.maxAttempts = m, !.windowMs = w]
  /\ VitalsIdle

NextLimit ==
  \/ Tick
  \/ \E u \in Callers : LimitRequest(u)

SpecLimit == InitLimit /\ [][NextLimit]_vars

\* ------------------------------------------------------------ Vitals model
\* new Vitals(d).save(): validation runs first; a ValidationError rejects the
\* save.  For a weight reading the pre-save hook then looks for the height.
save(d) ==
  /\ vsave.pc = "idle"
  /\ vcount < MaxSaves
  /\ vcount' = vcount + 1
  /\ IF ~Validates(d)
       THEN vsave' = vsave
       ELSE vsave' = [pc |-> IF d.type = "weight" THEN "height" ELSE "insert",
                      doc |-> d, height |-> Undefined, modified |-> FALSE]
  /\ UNCHANGED <<vitals, vout, outsideVitals>>

\* the active height readings of u with the latest recordedAt
LatestHeights(u) ==
  LET hs == { h \in vitals : h.user = u /\ h.type = "height" /\ h.isActive = "true" }
  IN { h \in hs : \A g \in hs : g.recordedAt <= h.recordedAt }

\* Vitals.findOne({user, type: 'height', isActive: true}).sort({recordedAt: -1})
\* settles; with a height and a truthy weight the bmi upsert is issued
saveFindHeight ==
  /\ vsave.pc = "height"
  /\ LET hs == LatestHeights(vsave.doc.user)
         w == vsave.doc.numeric
     IN
     IF hs # {} /\ w # Undefined /\ w # 0
       THEN \E h \in hs : vsave' = [vsave EXCEPT !.pc = "bmi", !.height = h.numeric,
                                                  !.doc.hook = TRUE]
       ELSE vsave' = [vsave EXCEPT !.pc = "insert"]
  /\ UNCHANGED <<vitals, vcount, vout, outsideVitals>>

\* the bmi readings of the user recorded within 24 hours of time t
BmiInWindow(u, t) ==
  { b \in vitals : /\ b.user = u
                   /\ b.type = "bmi"
                   /\ b.recordedAt >= t - DayMs
                   /\ b.recordedAt <= t + DayMs }

\* the fields the update sets
BmiFields(b, d, h) ==
  [b EXCEPT !.user = d.user, !.type = "bmi", !.numeric = BmiOf(d.numeric, h),
            !.text = "", !.systolic = Undefined, !.diastolic = Undefined,
            !.unit = "kg/m2", !.recordedAt = d.recordedAt,
            !.source = "calculated", !.hook = FALSE]

\* The _id given to a document on insert, unique in the collection: the
\* user, type and time of the document and a serial number.
FreshId(u, ty, t) ==
  <<u, ty, t, 1 + Cardinality({ v \in vitals :
                 v.id[1] = u /\ v.id[2] = ty /\ v.id[3] = t })>>

\* Vitals.findOneAndUpdate(..., {upsert: true, new: true}) settles: one
\* matching bmi reading is updated, or a new one is inserted.  No validator
\* runs on the update; whether the inserted document gets the schema
\* defaults depends on the library's setDefaultsOnInsert.
saveUpsertBmi ==
  /\ vsave.pc = "bmi"
  /\ LET d == vsave.doc
         found == BmiInWindow(d.user, d.recordedAt)
     IN
     IF found # {}
       THEN \E b \in found :
              vitals' = (vitals \ {b}) \cup {BmiFields(b, d, vsave.height)}
       ELSE \E act \in {"true", "unset"} :
              vitals' = vitals \cup
                {BmiFields([BlankVital EXCEPT
                              !.id = FreshId(d.user, "bmi", d.recordedAt),
                              !.isActive = act],
                           d, vsave.height)}
  /\ vsave' = [vsave EXCEPT !.pc = "insert"]
  /\ UNCHANGED <<vcount, vout, outsideVitals>>

\* a record in the body of an answer: its collection, _id and user (the _id
\* of a File is written as a tuple, as the other _ids are)
Rec(coll, r) ==
  [coll |-> coll, id |-> IF coll = "File" THEN <<"file", 0, r.id>> ELSE r.id,
   user |-> r.user]

\* The document itself is written.  A new document is inserted.  A loaded
\* one is updated where its _id is, if a path was modified: when it is gone
\* the save rejects (DocumentNotFoundError) and the catch of the PUT handler
\* answers 500; otherwise the handler answers with the document.
saveInsert ==
  /\ vsave.pc = "insert"
  /\ LET d == vsave.doc
         there == \E v \in vitals : v.id = d.id
     IN
     IF d.id = <<>>
       THEN /\ vitals' = vitals \cup
                 {[d EXCEPT !.id = FreshId(d.user, d.type, d.recordedAt)]}
            /\ UNCHANGED acc
     ELSE IF vsave.modified /\ ~there
       THEN /\ acc' = [NoAccess EXCEPT !.op = "vitals.put", !.user = d.user,
                                        !.id = d.id, !.status = 500]
            /\ UNCHANGED vitals
       ELSE /\ vitals' = IF vsave.modified
                           THEN { v \in vitals : v.id # d.id } \cup {d}
                           ELSE vitals
            /\ acc' = [NoAccess EXCEPT !.op = "vitals.put", !.user = d.user,
                                        !.id = d.id, !.status = 200,
                                        !.data = {Rec("Vitals", d)}]
  /\ vsave' = IdleSave
  /\ UNCHANGED <<vcount, vout, routeVars, geminiVars, authVars, limitVars, pageVars, profileVars>>

\* ---------------------------------------------------------- /api/vitals
\* The body of POST /api/vitals: recordedAt ("" if missing) and bloodPressure
\* (Undefined fields if missing).
PostBodies ==
  { [recordedAt |-> r, systolic |-> p[1], diastolic |-> p[2]] :
      r \in {"", "2024-01-15T08:00"}, p \in {<<120, 80>>} }

\* new Vitals({user, bloodPressure, heartRate, ..., recordedAt, notes}): the
\* schema has no bloodPressure, heartRate, ... paths, so these are dropped;
\* type, value and unit are never set
PostDocument(u, body) ==
  [BlankVital EXCEPT !.user = u, !.recordedAt = 0]

\* POST /api/vitals
VitalsPost(u, body) ==
  /\ vsave.pc = "idle"
  /\ LET asked == [BlankVital EXCEPT !.user = u, !.type = "blood_pressure",
                      !.systolic = body.systolic, !.diastolic = body.diastolic]
     IN
     IF body.recordedAt = ""
       THEN /\ vout' = [NoAnswer EXCEPT !.op = "post", !.user = u,
                                         !.status = 400, !.asked = asked]
            /\ UNCHANGED <<vitals, vsave>>
     ELSE IF ~Validates(PostDocument(u, body))
       THEN \* vitals.save() rejects, the catch answers 500
            /\ vout' = [NoAnswer EXCEPT !.op = "post", !.user = u,
                                         !.status = 500, !.asked = asked]
            /\ UNCHANGED <<vitals, vsave>>
       ELSE LET doc == [PostDocument(u, body) EXCEPT !.id = FreshId(u, "", 0)]
            IN /\ vitals' = vitals \cup {doc}
               /\ vout' = [NoAnswer EXCEPT !.op = "post", !.user = u,
                                            !.status = 201, !.asked = asked,
                                            !.data = {doc}]
            /\ UNCHANGED vsave
  /\ UNCHANGED <<vcount, outsideVitals>>

LatestAmongAll(u) ==
  LET mine == { v \in vitals : v.user = u }
  IN { S \in SUBSET mine :
         /\ \A v \in mine : \E l \in S : l.type = v.type
         /\ \A l \in S : \A v \in mine : v.type = l.type => v.recordedAt <= l.recordedAt
         /\ \A l1 \in S, l2 \in S : l1.type = l2.type => l1 = l2 }

\* getLatestVitals(userId): $match user and isActive, $sort recordedAt
\* descending, $group by type keeping the first document.  The possible
\* results: one document per type, among those with the latest recordedAt.
getLatestVitals(u) ==
  LET mine == { v \in vitals : v.user = u /\ v.isActive = "true" }
  IN { S \in SUBSET mine :
         /\ \A v \in mine : \E l \in S : l.type = v.type
         /\ \A l \in S : \A v \in mine : v.type = l.type => v.recordedAt <= l.recordedAt
         /\ \A l1 \in S, l2 \in S : l1.type = l2.type => l1 = l2 }

\* GET /api/vitals/latest
VitalsLatest(u) ==
  /\ \E S \in getLatestVitals(u) :
        vout' = [NoAnswer EXCEPT !.op = "latest", !.user = u, !.status = 200,
                                 !.data = S]
  /\ UNCHANGED <<vitals, vsave, vcount, outsideVitals>>

InitVitals ==
  /\ RoutesInit
  /\ acc = NoAccess
  /\ pg = NoPage
  /\ prof = IdleProfile
  /\ gem = IdleGemini
  /\ AuthIdle
  /\ lim = NoLimiter
  /\ VitalsIdle

NextVitals ==
  \/ \E d \in SavedDocs : save(d)
  \/ saveFindHeight
  \/ saveUpsertBmi
  \/ saveInsert
  \/ \E u \in Users, body \in PostBodies : VitalsPost(u, body)
  \/ \E u \in Users : VitalsLatest(u)

SpecVitals == InitVitals /\ [][NextVitals]_vars

\* ------------------------------------------ lists and requests by id
Answered404(op, u, id) ==
  [NoAccess EXCEPT !.op = op, !.user = u, !.id = id, !.status = 404]

AnsweredWith(op, u, id, st, data) ==
  [op |-> op, user |-> u, id |-> id, status |-> st, data |-> data]

\* findOne({_id: id, user: u}) on a collection
FindOwned(coll, u, id) == { r \in coll : r.id = id /\ r.user = u }

\* populate('file', ...): the File an insight points to, whoever owns it
Populated(is) == { f \in files : \E i \in is : i.file = f.id }

\* GET /api/files: File.find({user}), first page
FileList(u) ==
  /\ acc' = AnsweredWith("files.list", u, <<>>, 200,
                { Rec("File", f) : f \in { g \in files : g.user = u } })
  /\ UNCHANGED <<routeVars, geminiVars, authVars, limitVars, vitalVars, pageVars, profileVars>>

\* GET /api/files/:id
FileGet(u, id) ==
  /\ LET found == FindOwned(files, u, id)
     IN acc' = IF found = {} THEN Answered404("files.get", u, <<id>>)
               ELSE AnsweredWith("files.get", u, <<id>>, 200,
                                 { Rec("File", f) : f \in found })
  /\ UNCHANGED <<routeVars, geminiVars, authVars, limitVars, vitalVars, pageVars, profileVars>>

\* GET /api/files/:id/download?index=: a redirect to the stored file's url
FileDownload(u, id, index) ==
  /\ LET found == FindOwned(files, u, id)
     IN acc' = IF found = {} THEN Answered404("files.download", u, <<id>>)
               ELSE IF \E f \in found : index >= Len(f.files)
                 THEN Answered404("files.download", u, <<id>>)
                 ELSE AnsweredWith("files.download", u, <<id>>, 302,
                                   { Rec("File", f) : f \in found })
  /\ UNCHANGED <<routeVars, geminiVars, authVars, limitVars, vitalVars, pageVars, profileVars>>

\* GET /api/insights: AiInsight.find({user}).populate('file', ...)
InsightList(u) ==
  /\ LET mine == { i \in insights : i.user = u }
     IN acc' = AnsweredWith("insights.list", u, <<>>, 200,
                   { Rec("AiInsight", i) : i \in mine } \cup
                   { Rec("File", f) : f \in Populated(mine) })
  /\ UNCHANGED <<routeVars, geminiVars, authVars, limitVars, vitalVars, pageVars, profileVars>>

\* GET /api/insights/:id: findOne({_id, user}).populate('file', ...)
InsightGet(u, iid) ==
  /\ LET found == FindOwned(insights, u, iid)
     IN acc' = IF found = {} THEN Answered404("insights.get", u, iid)
               ELSE AnsweredWith("insights.get", u, iid, 200,
                      { Rec("AiInsight", i) : i \in found } \cup
                      { Rec("File", f) : f \in Populated(found) })
  /\ UNCHANGED <<routeVars, geminiVars, authVars, limitVars, vitalVars, pageVars, profileVars>>

\* PUT /api/insights/:id: summary is the body's summary ("" when absent);
\* title, details, language and isRead are not paths of the schema.  save()
\* validates, then runs the pre-save hook.
InsightPut(u, iid, summary) ==
  /\ LET found == FindOwned(insights, u, iid)
     IN
     IF found = {}
       THEN /\ acc' = Answered404("insights.put", u, iid)
            /\ UNCHANGED insights
     ELSE IF summary \notin {"", "both"}
       THEN /\ acc' = AnsweredWith("insights.put", u, iid, 500, {})
            /\ UNCHANGED insights
       ELSE /\ insights' = (insights \ found) \cup
                 { [i EXCEPT !.disclaimers = PreSaveDisclaimers(@)] : i \in found }
            /\ acc' = AnsweredWith("insights.put", u, iid, 200,
                                   { Rec("AiInsight", i) : i \in found })
  /\ UNCHANGED <<upl, del, files, store, temp, manual,
                 geminiVars, authVars, limitVars, vitalVars, pageVars, profileVars>>

\* DELETE /api/insights/:id, with its answer
InsightDeleteById(u, iid) ==
  /\ LET found == FindOwned(insights, u, iid)
     IN
     IF found = {}
       THEN /\ acc' = Answered404("insights.delete", u, iid)
            /\ UNCHANGED insights
       ELSE /\ insights' = { i \in insights : i.id # iid }
            /\ acc' = AnsweredWith("insights.delete", u, iid, 200, {})
  /\ UNCHANGED <<upl, del, files, store, temp, manual,
                 geminiVars, authVars, limitVars, vitalVars, pageVars, profileVars>>

\* PATCH /api/insights/:id/read: findOneAndUpdate({_id, user}, {isRead,
\* readAt}); the schema has neither path, so the document is left as it is
InsightMarkRead(u, iid) ==
  /\ LET found == FindOwned(insights, u, iid)
     IN acc' = IF found = {} THEN Answered404("insights.read", u, iid)
               ELSE AnsweredWith("insights.read", u, iid, 200,
                                 { Rec("AiInsight", i) : i \in found })
  /\ UNCHANGED <<routeVars, geminiVars, authVars, limitVars, vitalVars, pageVars, profileVars>>

\* GET /api/vitals: with type and days the handler calls
\* Vitals.getVitalsHistory, which the model does not define: the catch
\* answers 500.  Otherwise Vitals.find({user}), first page.
VitalsList(u, history) ==
  /\ acc' = IF history THEN AnsweredWith("vitals.list", u, <<>>, 500, {})
            ELSE AnsweredWith("vitals.list", u, <<>>, 200,
                   { Rec("Vitals", v) : v \in { w \in vitals : w.user = u } })
  /\ UNCHANGED <<routeVars, geminiVars, authVars, limitVars, vitalVars, pageVars, profileVars>>

\* GET /api/vitals/:id
VitalsGet(u, id) ==
  /\ LET found == FindOwned(vitals, u, id)
     IN acc' = IF found = {} THEN Answered404("vitals.get", u, id)
               ELSE AnsweredWith("vitals.get", u, id, 200,
                                 { Rec("Vitals", v) : v \in found })
  /\ UNCHANGED <<routeVars, geminiVars, authVars, limitVars, vitalVars, pageVars, profileVars>>

\* PUT /api/vitals/:id up to vitals.save(): recordedAt is the body's
\* recordedAt (Undefined when absent); bloodPressure, heartRate, ... are not
\* paths of the schema.  The save validates the document, then goes on as
\* the save of a new document does.
VitalsPut(u, id, recordedAt) ==
  /\ vsave.pc = "idle"
  /\ LET found == FindOwned(vitals, u, id)
     IN
     IF found = {}
       THEN /\ acc' = Answered404("vitals.put", u, id)
            /\ UNCHANGED vsave
       ELSE \E v \in found :
              LET d == IF recordedAt = Undefined THEN v
                       ELSE [v EXCEPT !.recordedAt = recordedAt]
              IN IF ~Validates(d)
                   THEN /\ acc' = AnsweredWith("vitals.put", u, id, 500, {})
                        /\ UNCHANGED vsave
                   ELSE /\ vsave' = [pc |-> IF d.type = "weight" THEN "height"
                                                               ELSE "insert",
                                     doc |-> d, height |-> Undefined,
                                     modified |-> d # v]
                        /\ UNCHANGED acc
  /\ UNCHANGED <<vitals, vcount, vout, routeVars, geminiVars, authVars, limitVars, pageVars, profileVars>>

\* DELETE /api/vitals/:id
VitalsDelete(u, id) ==
  /\ LET found == FindOwned(vitals, u, id)
     IN
     IF found = {}
       THEN /\ acc' = Answered404("vitals.delete", u, id)
            /\ UNCHANGED vitals
       ELSE /\ vitals' = { v \in vitals : v.id # id }
            /\ acc' = AnsweredWith("vitals.delete", u, id, 200, {})
  /\ UNCHANGED <<vsave, vcount, vout, routeVars, geminiVars, authVars, limitVars, pageVars, profileVars>>

\* Where requests by id are followed, u1 uploads one PDF and saves a weight
\* reading, and u2 posts an insight; both users send the requests.
AccessDocs == { Reading("u1", "weight", 700, "kg", 0, "true") }

\* the ids a client puts in a request: those of records that exist, existed
\* or never did
InsightIds == { <<"manual", 0, k>> : k \in 1..MaxManual }
VitalIds   == { <<d.user, d.type, t, 1>> : d \in AccessDocs, t \in {0, 24 * HourMs} }

InitAccess ==
  /\ RoutesInit
  /\ acc = NoAccess
  /\ pg = NoPage
  /\ prof = IdleProfile
  /\ gem = IdleGemini
  /\ AuthIdle
  /\ lim = NoLimiter
  /\ VitalsIdle

\* Uploads, manual insights and saved readings of two users, interleaved
\* with their lists and requests by id.
NextAccess ==
  \/ \E r \in Reqs : UploadReceive(r, "u1", <<"pdf">>, "Blood Test", "2024-01-15")
  \/ \E r \in Reqs, ok \in BOOLEAN : UploadStored(r, ok)
  \/ \E r \in Reqs : UploadSaveRecord(r)
  \/ \E file \in Reqs : InsightPost("u2", TRUE, "both", file)
  \/ \E d \in AccessDocs : vcount < AccessSaves /\ save(d)
  \/ saveFindHeight
  \/ saveInsert
  \/ \E d \in Dels, u \in Users, id \in Reqs : DelStart(d, u, id)
  \/ \E d \in Dels, ok \in BOOLEAN : DelCloud(d, ok)
  \/ \E d \in Dels : DelRecord(d)
  \/ \E d \in Dels : DelInsights(d)
  \/ \E u \in Users : FileList(u)
  \/ \E u \in Users, id \in Reqs : FileGet(u, id)
  \/ \E u \in Users, id \in Reqs, index \in {0, 1} : FileDownload(u, id, index)
  \/ \E u \in Users : InsightList(u)
  \/ \E u \in Users, iid \in InsightIds : InsightGet(u, iid)
  \/ \E u \in Users, iid \in InsightIds, summary \in {"", "english"} :
        InsightPut(u, iid, summary)
  \/ \E u \in Users, iid \in InsightIds : InsightDeleteById(u, iid)
  \/ \E u \in Users, iid \in InsightIds : InsightMarkRead(u, iid)
  \/ \E u \in Users, history \in BOOLEAN : VitalsList(u, history)
  \/ \E u \in Users, id \in VitalIds : VitalsGet(u, id)
  \/ \E u \in Users, id \in VitalIds, recordedAt \in {Undefined, 24 * HourMs} :
        VitalsPut(u, id, recordedAt)
  \/ \E u \in Users, id \in VitalIds : VitalsDelete(u, id)

SpecAccess == InitAccess /\ [][NextAccess]_vars

\* ------------------------------------------------- pages of the lists
ListRoutes  == {"files", "insights", "vitals"}
PageValues  == 0..3
LimitValues == {0, 1, 2, 3, DefaultLimit}

\* const skip = (page - 1) * limit
Skip(page, limit) == (page - 1) * limit

\* Math.ceil(total / limit): Infinity or NaN for limit 0, which JSON writes
\* as null
PagesOf(total, limit) ==
  IF limit = 0 THEN Undefined ELSE (total + limit - 1) \div limit

\* .skip(skip).limit(parseInt(limit)) on the sorted matching records: a
\* limit of 0 is no limit
PageOf(total, page, limit) ==
  LET from == Skip(page, limit) + 1
      to == IF limit = 0 THEN total ELSE Min(total, Skip(page, limit) + limit)
  IN [k \in 1..Max(0, to - from + 1) |-> from + k - 1]

\* GET /api/files, GET /api/insights or GET /api/vitals (without type and
\* days) arrives
ListArrives(route, total, page, limit) ==
  /\ pg.pc = "idle"
  /\ pg' = [NoPage EXCEPT !.pc = "asked", !.route = route, !.total = total,
                          !.page = page, !.limit = limit]
  /\ UNCHANGED <<routeVars, geminiVars, authVars, limitVars, vitalVars, accessVars, profileVars>>

\* find(...).skip().limit() and countDocuments settle; a negative skip is
\* rejected by the database and the catch answers 500
ListAnswers ==
  /\ pg.pc = "asked"
  /\ pg' = IF Skip(pg.page, pg.limit) < 0
             THEN [pg EXCEPT !.pc = "done", !.status = 500]
             ELSE [pg EXCEPT !.pc = "done", !.status = 200,
                             !.data = PageOf(pg.total, pg.page, pg.limit),
                             !.pages = PagesOf(pg.total, pg.limit)]
  /\ UNCHANGED <<routeVars, geminiVars, authVars, limitVars, vitalVars, accessVars, profileVars>>

InitPage ==
  /\ RoutesInit
  /\ acc = NoAccess
  /\ pg = NoPage
  /\ prof = IdleProfile
  /\ gem = IdleGemini
  /\ AuthIdle
  /\ lim = NoLimiter
  /\ VitalsIdle

NextPage ==
  \/ \E route \in ListRoutes, total \in 0..MaxRecs,
        page \in PageValues, limit \in LimitValues :
        ListArrives(route, total, page, limit)
  \/ ListAnswers

SpecPage == InitPage /\ [][NextPage]_vars

\* ------------------------------------------- serverless profile handler
Methods == {"OPTIONS", "GET", "PUT", "POST"}

\* everything but the profile request
outsideProfile ==
  <<routeVars, geminiVars, limitVars, vitalVars, accessVars, pageVars>>

\* a response has been written on res
HeadersSent(p) == p.responses # <<>>

\* a res.json that writes although a response has been sent
resJsonWritesAgain(p, st, d) ==
  [ok |-> TRUE, p |-> [p EXCEPT !.responses = Append(@, st), !.data = @ \/ d]]

\* res.status(st).json(...): setting a header after the response has been
\* sent throws ERR_HTTP_HEADERS_SENT and nothing is written.  ok: the call
\* returned; p: the request after it
resJson(p, st, d) ==
  IF HeadersSent(p) THEN [ok |-> FALSE, p |-> p]
  ELSE [ok |-> TRUE, p |-> [p EXCEPT !.responses = Append(@, st), !.data = d]]

\* the handler's catch: res.status(500).json(...); when that throws too, the
\* handler's promise rejects
Caught(p) ==
  LET w == resJson(p, 500, FALSE)
  IN IF w.ok THEN [w.p EXCEPT !.pc = "done"]
     ELSE [w.p EXCEPT !.pc = "done", !.rejected = TRUE]

\* a response written inside the try block
Respond(p, st, d) ==
  LET w == resJson(p, st, d)
  IN IF w.ok THEN [w.p EXCEPT !.pc = "done"] ELSE Caught(w.p)

\* The request arrives; connectDB resolves; the CORS headers are set.
\* OPTIONS is answered at once, any other method calls authenticateToken.
\* valid: the body passes the validation chain of PUT.
ProfileArrives(m, valid) ==
  /\ prof.pc = "idle"
  /\ auth.pc = "idle"
  /\ prof' = IF m = "OPTIONS"
               THEN [prof EXCEPT !.method = m, !.valid = valid, !.pc = "done",
                                 !.responses = <<200>>]
               ELSE [prof EXCEPT !.method = m, !.valid = valid, !.pc = "auth"]
  /\ UNCHANGED <<accounts, auth, outsideProfile>>

\* await authenticateToken(req, res, () => {}) has settled, with a response
\* written on res or with req.user set; the handler goes on in both cases,
\* up to its answer or to the await of findByIdAndUpdate
ProfileContinue ==
  /\ prof.pc = "auth"
  /\ auth.pc = "done"
  /\ LET p == [prof EXCEPT !.responses =
                  IF auth.status # 0 THEN <<auth.status>> ELSE <<>>]
     IN
     prof' =
       IF p.method = "GET" THEN Respond(p, 200, TRUE)
       ELSE IF p.method = "PUT"
         THEN IF ~p.valid THEN Respond(p, 400, FALSE)
              ELSE IF auth.user = None
                THEN Caught(p)       \* req.user._id: TypeError
                ELSE [p EXCEPT !.pc = "update", !.updated = TRUE]
       ELSE Respond(p, 405, FALSE)
  /\ UNCHANGED <<accounts, auth, outsideProfile>>

\* User.findByIdAndUpdate settles: the updated profile is answered, or the
\* rejection is caught
ProfileUpdated(dbOk) ==
  /\ prof.pc = "update"
  /\ prof' = IF dbOk THEN Respond(prof, 200, TRUE) ELSE Caught(prof)
  /\ UNCHANGED <<accounts, auth, outsideProfile>>

InitProfile ==
  /\ RoutesInit
  /\ acc = NoAccess
  /\ pg = NoPage
  /\ prof = IdleProfile
  /\ gem = IdleGemini
  /\ AuthIdle
  /\ lim = NoLimiter
  /\ VitalsIdle

NextProfile ==
  \/ \E u \in Users : Register(u)
  \/ \E m \in Methods, valid \in BOOLEAN : ProfileArrives(m, valid)
  \/ \E h \in Headers : prof.pc = "auth" /\ authenticateToken(h)
  \/ \E dbOk \in BOOLEAN : authenticateTokenLookup(dbOk)
  \/ ProfileContinue
  \/ \E dbOk \in BOOLEAN : ProfileUpdated(dbOk)

SpecProfile == InitProfile /\ [][NextProfile]_vars

\* ================================================================ claims
\* the handler of request r has answered
Answered(r) == upl[r].pc \in {"done", "responded"}

\* number of the request's files that pass the type/size policy
Passing(r) ==
  Cardinality({ i \in 1..Len(upl[r].files) : PassesPolicy(upl[r].files[i]) })

\* the stored objects of request r
StoredOf(r) == { o \in store : o[1] = r }

InsightsOf(id) == { i \in insights : i.file = id }

\* C1: whenever the File record of an upload is in the database the success
\* response has been sent, whatever the state of the queued analyses; it
\* carries the File with status 'uploaded' and the number of stored files.
C1_RespondsOnceSaved ==
  \A r \in Reqs :
    Exists(r) =>
      /\ upl[r].pc = "responded"
      /\ upl[r].resp.status = 200
      /\ upl[r].resp.fileStatus = "uploaded"
      /\ upl[r].resp.uploadedFiles = Len(upl[r].uploadedFiles)
      /\ upl[r].resp.uploadedFiles = Len(FileOf(r).files)

\* the response is out while every queued analysis is still pending
C1_Witness ==
  \E r \in Reqs :
    /\ Exists(r)
    /\ upl[r].resp.status = 200
    /\ Len(upl[r].promises) >= 2
    /\ \A j \in 1..Len(upl[r].promises) : upl[r].promises[j].state = "pending"

\* number of settled analyses of r that succeeded with a non-empty summary
WithSummary(r) ==
  Cardinality({ j \in 1..Len(upl[r].promises) : HasSummary(upl[r].promises[j]) })

\* C2 (as claimed): when the background step of an upload has ended and
\* k >= 1 of its analyses succeeded with a non-empty summary, the File has
\* status 'analyzed' and exactly k Insights exist for it.
C2_Original ==
  \A r \in Reqs :
    (upl[r].bg = "done" /\ WithSummary(r) >= 1 /\ Exists(r)) =>
      /\ FileOf(r).status = "analyzed"
      /\ Cardinality(InsightsOf(r)) = WithSummary(r)

\* C3 (as claimed): a File whose background step has ended has status
\* 'analyzed' only if some Insight references it.
C3_Original ==
  \A f \in files :
    (f.status = "analyzed" /\ upl[f.id].bg = "done") => InsightsOf(f.id) # {}

\* C3 (amended): a File has status 'analyzed' only if at least one analysis
\* snapshot, each a non-null result, is stored on it.
C3_AnalyzedHasSnapshot ==
  \A f \in files :
    f.status = "analyzed" =>
      /\ Len(f.aiAnalysis) >= 1
      /\ \A j \in 1..Len(f.aiAnalysis) : f.aiAnalysis[j].state = "value"

\* an analyzed File, its background step over, that no Insight references
C3_Witness ==
  \E f \in files :
    /\ f.status = "analyzed"
    /\ upl[f.id].bg = "done"
    /\ Len(f.aiAnalysis) >= 1
    /\ InsightsOf(f.id) = {}

\* C4 (as claimed): every Insight references an existing File of the same
\* user.
C4_Original ==
  \A i \in insights : \E f \in files : f.id = i.file /\ f.user = i.user

\* C11 (as claimed): every persisted Insight, created by the background step
\* of an upload or by POST /api/insights, has both disclaimer blocks set, to
\* the supplied value or to the default text.
C11_Original ==
  \A i \in insights : i.disclaimers.ai # "unset" /\ i.disclaimers.med # "unset"

Kept(r) ==
  SelectSeq([i \in 1..Len(upl[r].files) |-> i], LAMBDA i : i \notin upl[r].skipped)

\* C8: when the storage call of some files of a request failed, those files
\* are neither stored, nor in the File record, nor analysed; every other file
\* is stored, in the File record and has exactly one analysis queued; with
\* valid metadata the request answers success.
C8_StorageFailureSkipsOnlyThatFile ==
  \A r \in Reqs :
    (Answered(r) /\ upl[r].skipped # {}) =>
      LET q == upl[r]
          kept == Kept(r)
      IN
      /\ Len(q.uploadedFiles) = Len(kept)
      /\ Len(q.promises) = Len(kept)
      /\ \A n \in 1..Len(kept) :
           /\ q.uploadedFiles[n].cloudinaryId = <<r, kept[n]>>
           /\ q.promises[n].of = kept[n]
           /\ <<r, kept[n]>> \in store
      /\ \A i \in q.skipped : <<r, i>> \notin store
      /\ FileValidates(q.reportType, q.reportDate) =>
           /\ q.resp.status = 200
           /\ q.resp.uploadedFiles = Len(kept)
           /\ Exists(r)
           /\ FileOf(r).files = q.uploadedFiles

\* three files, the storage call of the second failed, the others went through
C8_Witness ==
  \E r \in Reqs :
    /\ upl[r].pc = "responded"
    /\ Len(upl[r].files) = 3
    /\ upl[r].skipped = {2}
    /\ Len(FileOf(r).files) = 2
    /\ Len(upl[r].promises) = 2

\* C9 (as claimed): when the background step of an upload with at least one
\* successful analysis has ended, the Insights of the File are exactly one per
\* successful result with a non-empty summary, each carrying the request's
\* user and the File's id.
C9_Original ==
  \A r \in Reqs :
    LET valid == ValidAnalyses(upl[r].promises)
    IN (upl[r].bg = "done" /\ Len(valid) >= 1 /\ Exists(r)) =>
         /\ { i.id : i \in InsightsOf(r) } =
              { <<"analysis", r, j>> : j \in { n \in 1..Len(valid) : HasSummary(valid[n]) } }
         /\ \A i \in InsightsOf(r) : i.user = upl[r].user

\* C10: once the analyses of an upload have all failed, the File record is
\* the record that was created (status 'uploaded', no snapshot) and no
\* Insight exists for it, before and after the background step.
C10_AllFailedLeavesFile ==
  \A r \in Reqs :
    (/\ upl[r].bg # "none"
     /\ Len(upl[r].promises) >= 1
     /\ \A j \in 1..Len(upl[r].promises) : upl[r].promises[j].state = "null") =>
      /\ upl[r].bg \in {"waiting", "done"}
      /\ Exists(r)
      /\ FileOf(r) = NewFileRecord(r)
      /\ FileOf(r).status = "uploaded"
      /\ FileOf(r).aiAnalysis = <<>>
      /\ InsightsOf(r) = {}

\* the background step has run on three failed analyses
C10_Witness ==
  \E r \in Reqs :
    /\ upl[r].bg = "done"
    /\ Len(upl[r].promises) = 3
    /\ \A j \in 1..3 : upl[r].promises[j].state = "null"

\* C12 (as claimed): a result returned by analyzeMedicalReportFromUrl holds
\* every field of the analysis structure (the fully populated structure and
\* the fallback both do); none is missing.
C12_Original ==
  gem.pc = "returned" => AnalysisFields \subseteq gem.result.fields

\* positions of the two braces in t, found character by character
Opens(t)  == { i \in 1..TextLen(t) : CharAt(t, i) = "{" }
Closes(t) == { i \in 1..TextLen(t) : CharAt(t, i) = "}" }

\* the text has no "{...}" substring, or the substring from its first "{" to
\* its last "}" is not JSON
Unparseable(t) ==
  \/ \A i \in Opens(t), j \in Closes(t) : ~(i < j)
  \/ \E i \in Opens(t), j \in Closes(t) :
        /\ i < j
        /\ \A k \in Opens(t) : i <= k
        /\ \A k \in Closes(t) : k <= j
        /\ \E k \in (i + 1)..(j - 1) : CharAt(t, k) \notin {"s", "a"}

\* C13: for a text with no "{...}" substring, or whose extracted substring
\* is not JSON, the result is the fallback: the english summary is the first
\* 500 characters of the text followed by "...", the urdu summary is the
\* placeholder, there is one doctor question, the other lists are empty, the
\* disclaimers are the defaults and confidence is 70.
C13_FallbackFromText ==
  (gem.pc = "returned" /\ Unparseable(gem.text)) =>
    LET o == gem.result
        n == IF TextLen(gem.text) < 500 THEN TextLen(gem.text) ELSE 500
    IN
    /\ TextLen(o.english) = n
    /\ \A i \in 1..n : CharAt(o.english, i) = CharAt(gem.text, i)
    /\ o.ellipsis
    /\ o.urdu = "placeholder"
    /\ o.doctorQuestions = 1
    /\ o.keyFindings = 0 /\ o.abnormalValues = 0
    /\ o.riskFactors = 0 /\ o.followUpSuggestions = 0
    /\ o.lifestyle = 0 /\ o.medical = 0
    /\ o.disclaimers = "default"
    /\ o.confidence = 70
    /\ AnalysisFields \subseteq o.fields

\* a text of more than 500 characters whose braces enclose prose: the
\* fallback keeps its first 500 characters
C13_Witness ==
  /\ gem.pc = "returned"
  /\ TextLen(gem.text) > 500
  /\ CharAt(gem.text, 1) = "{"
  /\ CharAt(gem.text, TextLen(gem.text)) = "}"
  /\ Unparseable(gem.text)
  /\ TextLen(gem.result.english) = 500
  /\ gem.result.confidence = 70

\* C15: authenticateToken calls next() only for a header whose token is
\* signed with the secret, not expired, and names an existing user, who
\* becomes req.user; a request without token, or with an unsigned or expired
\* token, is answered 401, and so is one whose token names no user once the
\* lookup has answered; next() is never called for them, and no request gets
\* both a response and next().
C15_NextOnlyWhenAuthenticated ==
  LET h == auth.header
      t == h.token
  IN
  /\ auth.nextCalled =>
        /\ h.form = "twoWords" /\ t.signed /\ ~t.expired
        /\ t.userId \in accounts
        /\ auth.user = t.userId
  /\ (auth.pc = "done" /\ (h.form # "twoWords" \/ ~t.signed \/ t.expired)) =>
        auth.status = 401 /\ ~auth.nextCalled
  /\ (auth.pc = "done" /\ h.form = "twoWords" /\ t.signed /\ ~t.expired
       /\ t.userId \notin accounts /\ ~auth.dbError) =>
        auth.status = 401 /\ ~auth.nextCalled
  /\ ~(auth.nextCalled /\ auth.status # 0)
  /\ auth.pc = "done" => (auth.nextCalled \/ auth.status # 0)

\* an expired token of a registered user has been refused
C15_Witness ==
  /\ auth.pc = "done"
  /\ auth.header.form = "twoWords"
  /\ auth.header.token.signed
  /\ auth.header.token.expired
  /\ auth.header.token.userId \in accounts
  /\ auth.status = 401
  /\ ~auth.nextCalled

\* the requests of key k handed to next() in the window of length windowMs
\* that ends at time t
PassedInWindow(k, t) ==
  { j \in 1..Len(lim.passed[k]) :
      lim.passed[k][j] > t - lim.windowMs /\ lim.passed[k][j] <= t }

\* C16: for every key, no window of length windowMs holds more than
\* maxAttempts requests handed to next(); a request is either handed to
\* next() or answered 429, and a 429 is given only when the window is full
\* and carries a retryAfter of at least one whole second.
C16_AtMostMaxAttemptsPerWindow ==
  /\ \A k \in Keys : \A i \in 1..Len(lim.passed[k]) :
        Cardinality(PassedInWindow(k, lim.passed[k][i])) <= lim.maxAttempts
  /\ lim.resp.status \in {0, 429}
  /\ lim.resp.status = 429 =>
        /\ lim.resp.retryAfter >= 1
        /\ (lim.resp.retryAfter - 1) * 1000 < lim.windowMs
        /\ Cardinality(PassedInWindow(lim.resp.key, lim.resp.at)) >= lim.maxAttempts

\* with maxAttempts = 2 a third request inside the window got 429 with a
\* hint of two seconds, while the other key was served
C16_Witness ==
  /\ lim.maxAttempts = 2
  /\ lim.resp.status = 429
  /\ lim.resp.retryAfter = 2
  /\ Len(lim.passed[lim.resp.key]) >= 2
  /\ \E k \in Keys : k # lim.resp.key /\ Len(lim.passed[k]) >= 1

\* the bmi readings of the user of w within 24 hours of w
BmiNear(w) ==
  { b \in vitals : /\ b.user = w.user
                   /\ b.type = "bmi"
                   /\ b.recordedAt - w.recordedAt <= DayMs
                   /\ w.recordedAt - b.recordedAt <= DayMs }

\* C17 (as claimed): when no save is under way, every weight reading that
\* was saved while its user had a height reading has exactly one bmi reading
\* of that user within 24 hours of its recordedAt.
C17_Original ==
  vsave.pc = "idle" =>
    \A w \in vitals :
      (w.type = "weight" /\ w.hook) => Cardinality(BmiNear(w)) = 1

\* C18 (as claimed): every stored Vitals document has the shape its type
\* requires (numeric unless the type is a text type, text for the text
\* types, systolic and diastolic for blood_pressure) and a unit of the unit
\* enumeration.
C18_Original ==
  \A v \in vitals :
    /\ v.type \notin TextTypes => v.numeric # Undefined
    /\ v.type \in TextTypes => v.text # ""
    /\ v.type = "blood_pressure" => (v.systolic # Undefined /\ v.diastolic # Undefined)
    /\ v.unit \in UnitEnum

\* C19 (as claimed): a POST /api/vitals that carries recordedAt and the
\* blood pressure 120/80 is answered 201 and stores a document with that
\* pair, whose formattedValue reads 120/80 mmHg.
C19_Original ==
  (vout.op = "post" /\ vout.status # 400
   /\ vout.asked.systolic = 120 /\ vout.asked.diastolic = 80) =>
    /\ vout.status = 201
    /\ \E d \in vout.data :
         /\ d \in vitals
         /\ d.systolic = 120 /\ d.diastolic = 80
         /\ formattedValue(d) = <<120, "/", 80, " ", "mmHg">>

\* C20: the answer of getLatestVitals(u) holds at most one reading per type;
\* each is an active reading of u in the collection; for every type of which
\* u has an active reading it holds one whose recordedAt is the maximum over
\* u's active readings of that type.
C20_LatestPerType ==
  [][ (vout' # vout /\ vout'.op = "latest") =>
        LET S == vout'.data
            u == vout'.user
            active == { v \in vitals : v.user = u /\ v.isActive = "true" }
        IN
        /\ \A a \in S, b \in S : a.type = b.type => a = b
        /\ S \subseteq active
        /\ \A v \in active :
              \E l \in S : l.type = v.type /\ l.recordedAt >= v.recordedAt ]_vars

\* u1 asked: the answer holds two types, the weight of 24h although an
\* inactive weight of 48h is stored, and nothing of u2, who has a reading
C20_Witness ==
  /\ vout.op = "latest"
  /\ vout.user = "u1"
  /\ Cardinality(vout.data) >= 2
  /\ \E l \in vout.data : l.type = "weight" /\ l.recordedAt = 24 * HourMs
  /\ \E v \in vitals : /\ v.user = "u1" /\ v.type = "weight"
                        /\ v.isActive = "false" /\ v.recordedAt = 48 * HourMs
  /\ \E v \in vitals : v.user = "u2"
  /\ vout.data \subseteq vitals

\* ------------------------------------------------------------------- C14
OwnedBy(coll, u, id) == \E r \in coll : r.id = id /\ r.user = u

\* the record a request by id asks for is there and is the caller's
Owned(op, u, id) ==
  IF op \in {"files.get", "files.download"} THEN OwnedBy(files, u, id[1])
  ELSE IF op \in {"insights.get", "insights.put", "insights.delete", "insights.read"}
    THEN OwnedBy(insights, u, id)
  ELSE OwnedBy(vitals, u, id)

\* a handler answers a request by id after its lookup (the answer PUT
\* /api/vitals/:id gives after its save is not one of these)
ListOps == {"files.list", "insights.list", "vitals.list"}

LookupAnswered == acc' # acc /\ acc'.op \notin ListOps /\ vsave.pc # "insert"

\* A request by id for a record that is not the caller's, or is not there,
\* is answered 404 with no data, and the collections and the storage stay
\* as they are.
NonOwnerAnswered404 ==
  [][ /\ (LookupAnswered /\ ~Owned(acc'.op, acc'.user, acc'.id))
          => /\ acc' = Answered404(acc'.op, acc'.user, acc'.id)
             /\ UNCHANGED <<files, insights, vitals, store>>
      /\ \A d \in Dels :
           (del[d].pc = "idle" /\ del'[d].pc # "idle"
              /\ ~OwnedBy(files, del'[d].user, del'[d].id))
             => /\ del'[d].resp = 404
                /\ UNCHANGED <<files, insights, vitals, store>> ]_vars

\* C14: A read, delete, download, update or mark-read request for
\* /api/files/:id, /api/insights/:id or /api/vitals/:id issued by a user who
\* does not own the record is answered 404, exactly as for a nonexistent id,
\* and changes no state; list endpoints return only records whose user is
\* the caller.
C14_Original ==
  /\ NonOwnerAnswered404
  /\ [][ (acc' # acc /\ acc'.op \in ListOps)
           => \A rec \in acc'.data : rec.user = acc'.user ]_vars

\* ------------------------------------------------------------------- C21
\* C21: DELETE /api/files/:id passes every stored-file identifier of the File
\* to the storage service once, in order, whether or not an earlier call
\* failed; then the File record is deleted, then its Insights, and the
\* answer is 200, whatever calls failed.
C21_DeleteGoesOnAfterFailure ==
  [][ \A d \in Dels :
        /\ (del[d].pc = "cloud" /\ del'[d] # del[d]) =>
             /\ del'[d].requested = Append(del[d].requested, del[d].cloud[del[d].idx])
             /\ IF del[d].idx < Len(del[d].cloud)
                  THEN del'[d].pc = "cloud" /\ del'[d].idx = del[d].idx + 1
                  ELSE del'[d].pc = "record"
        /\ (del[d].pc = "record" /\ del'[d] # del[d]) =>
             /\ del[d].requested = del[d].cloud
             /\ del'[d].pc = "insights"
             /\ ~\E f \in files' : f.id = del[d].id
        /\ (del[d].pc = "insights" /\ del'[d] # del[d]) =>
             /\ del'[d].pc = "done"
             /\ del'[d].resp = 200
             /\ ~\E i \in insights' : i.file = del[d].id ]_vars

\* a File of two stored files was deleted with answer 200 although the first
\* storage deletion failed: the second was still requested, the record and
\* an insight of it are gone, the first object is still in the storage
C21_Witness ==
  \E d \in Dels :
    /\ del[d].pc = "done"
    /\ del[d].resp = 200
    /\ Len(del[d].cloud) = 2
    /\ del[d].requested = del[d].cloud
    /\ del[d].cloud[1] \in del[d].failed
    /\ del[d].cloud[2] \notin del[d].failed
    /\ del[d].removed > 0
    /\ del[d].cloud[1] \in store
    /\ ~\E f \in files : f.id = del[d].id
    /\ ~\E i \in insights : i.file = del[d].id

\* ------------------------------------------------------------------- C22
\* C22 (as claimed): an upload request whose multipart payload the parser
\* rejects before the route handler runs is answered 400.
C22_Original ==
  \A r \in Reqs :
    (upl[r].malformed /\ upl[r].pc = "done") => upl[r].resp.status = 400

\* ------------------------------------------------------------------- C23
\* C23 (as claimed): a transient copy exists only for the file whose storage
\* call is under way; once the handler has finished with a file, whether its
\* storage call succeeded or failed, no transient copy of it remains.
C23_Original ==
  \A t \in temp : upl[t[1]].pc = "storing" /\ upl[t[1]].idx = t[2]

\* ------------------------------------------------------------------- C24
\* C24 (as claimed): a list response holds at most limit records, those at
\* positions (page-1)*limit+1 .. page*limit of the sorted matching records,
\* and pagination.pages = ceil(total / limit) for the number total of
\* matching records.
C24_Original ==
  (pg.pc = "done" /\ pg.status = 200) =>
    /\ Len(pg.data) <= pg.limit
    /\ \A k \in 1..Len(pg.data) :
          /\ pg.data[k] = (pg.page - 1) * pg.limit + k
          /\ pg.data[k] <= pg.total
    /\ Len(pg.data) = Max(0, Min(pg.total, pg.page * pg.limit)
                               - (pg.page - 1) * pg.limit)
    /\ pg.limit # 0 => pg.pages = (pg.total + pg.limit - 1) \div pg.limit

\* ------------------------------------------------------------------- C25
\* C25 (as claimed): the prompt built for an upload whose reportType is a
\* member of the File schema's enumeration holds the table's guidance for
\* that type; the generic guidance is used only for a reportType that no
\* upload can persist.
C25_Original ==
  \A r \in Reqs :
    upl[r].guidance # "" =>
      (upl[r].guidance = "generic" <=> upl[r].reportType \notin ReportTypeEnum)

\* ------------------------------------------------------------------- C26
\* C26 (as claimed): once POST /api/files/upload has answered 400 or 500,
\* no object of the request is in the storage, no File record exists for it
\* and no Insight refers to it.
C26_Original ==
  \A r \in Reqs :
    (upl[r].pc = "done" /\ upl[r].resp.status \in {400, 500}) =>
      /\ ~\E o \in store : o[1] = r
      /\ ~Exists(r)
      /\ InsightsOf(r) = {}

C28_RefusalsDoNotProlong ==
  [][ (lim' # lim /\ lim'.ticks = lim.ticks) =>
        LET key == lim'.resp.key
            now == lim.now
            had == key \in DOMAIN lim.attempts /\ lim.attempts[key] # <<>>
        IN
        /\ lim'.resp.status = 429 =>
              /\ lim'.attempts[key] = Fresh(lim.attempts[key], now - lim.windowMs)
              /\ lim'.passed = lim.passed
        /\ (had /\ lim.attempts[key][1] + lim.windowMs <= now) =>
              lim'.resp.status = 0 ]_vars

\* maxAttempts = 1 and a window of one second: a request passed at 0, the
\* same key was refused at 500 ms, and its request at 1000 ms passed
C28_Witness ==
  \E k \in Keys :
    /\ lim.maxAttempts = 1
    /\ lim.windowMs = 2 * TickMs
    /\ lim.passed[k] = <<0, 2 * TickMs>>
    /\ lim.refused[k] = TickMs
    /\ lim.resp = [key |-> k, at |-> 2 * TickMs, status |-> 0, retryAfter |-> 0]

\* ------------------------------------------------------------------- C29
\* C29: a File is created with status 'uploaded'; its status changes only
\* from 'uploaded' to 'analyzed', in the step of the background callback of
\* the upload that created it that saves the record; no step sets
\* 'analyzing' or 'failed' or changes the status of an 'analyzed' File.
C29_StatusChangesOnce ==
  [][ \A g \in files' :
        IF \E f \in files : f.id = g.id
          THEN LET f == FileOf(g.id)
               IN \/ g.status = f.status
                  \/ /\ f.status = "uploaded"
                     /\ g.status = "analyzed"
                     /\ upl[g.id].bg = "waiting"
                     /\ upl'[g.id].bg # "waiting"
          ELSE g.status = "uploaded" ]_vars

\* the File of a finished upload is 'analyzed', its background step is over
\* and a delete request of another user has been refused in between
C29_Witness ==
  \E r \in Reqs :
    /\ Exists(r)
    /\ FileOf(r).status = "analyzed"
    /\ upl[r].bg = "done"
    /\ \E d \in Dels : del[d].pc = "done" /\ del[d].resp = 404 /\ del[d].id = r

\* ------------------------------------------------------------------- C30
\* C30: access and refresh tokens are not interchangeable: verifyRefreshToken
\* accepts a signed, unexpired token only if its type is 'refresh', and
\* authenticateToken never calls next() for a request whose bearer token is
\* a refresh token.
C30_Original ==
  /\ \A t \in Tokens :
        verifyRefreshToken(t) = "decoded" <=>
          (t.signed /\ ~t.expired /\ t.type = "refresh")
  /\ auth.nextCalled => auth.header.token.type # "refresh"

====
